---------------------------- MODULE Spec2Model ----------------------------
(***************************************************************************)
(* Prompt-to-tier gacha evaluation and battle judging of the ai-provider   *)
(* package: PromptEvaluationService (prompt-evaluation.service.ts) and     *)
(* BattleJudgeService (battle-judge.service.ts).                           *)
(*                                                                         *)
(* Values parsed from the generator's JSON are tagged records: a number is *)
(* [type |-> "number", val |-> n], a missing field is                      *)
(* [type |-> "undefined"], so that `typeof x !== 'number'` is a test the   *)
(* model makes the way the code makes it.  Numbers are integers.           *)
(* A generator text is a sequence of tokens (code fences, white space, one *)
(* JSON document, other prose); cleaning and parsing work on the tokens.   *)
(***************************************************************************)
EXTENDS Integers, Sequences, FiniteSets, TLC

VARIABLES
    pc,         \* position of the pipeline call in progress
    service,    \* which method that call is: evaluatePrompt or judgeBattle
    calls,      \* pipeline invocations started so far
    genCalls,   \* calls made to aiProvider.generateText so far
    response,   \* what the awaited generateText settled with
    outcome,    \* what the pipeline call settled with
    log,        \* the settled calls a caller kept: method, text, outcome
    qlTotal,    \* getQualityLevel: argument of the last application
    qlLevel,    \* getQualityLevel: its result
    rollProbs,  \* rollTier: the probabilities object, as its entries in order
    rollDraw,   \* rollTier: numerator of Math.random() * 100 (in 1/RollGrain)
    rollTierOut,  \* rollTier: the tier it returned
    rollFallback, \* rollTier: whether the return after the loop was taken
    table,      \* the module-level object TIER_PROBABILITIES
    bedrock     \* the BedrockProvider call in progress or just settled

vars == <<pc, service, calls, genCalls, response, outcome, log,
          qlTotal, qlLevel, rollProbs, rollDraw, rollTierOut, rollFallback, table,
          bedrock>>

---------------------------------------------------------------------------
(* Bounds of the model *)

\* pipeline invocations made in one behaviour
MaxCalls == 2
\* how far a declared total is drawn from the sum of its sub-scores
Slack == 2
\* how far outside its interval an out-of-range value lies
Over == 1
\* draws of rollTier are the multiples of 1/RollGrain in [0, 100)
RollGrain == 1

---------------------------------------------------------------------------
(* JSON values *)

Num(n) == [type |-> "number", val |-> n]
Undefined == [type |-> "undefined"]
JsNull == [type |-> "null"]
typeof(v) == v.type

Abs(n) == IF n < 0 THEN 0 - n ELSE n

(* A thrown Error with its message; the result of a function that returned *)
Throw(msg) == [ok |-> FALSE, error |-> msg]
Return(v) == [ok |-> TRUE, value |-> v]

---------------------------------------------------------------------------
(* prompt-evaluation.service.ts *)

Tiers == <<"common", "rare", "epic", "legendary">>
QualityLevels == {"low", "medium", "high", "exceptional"}

\* a TierProbability object literal: its own properties in insertion order
TierProbability(c, r, e, l) ==
    << <<"common", c>>, <<"rare", r>>, <<"epic", e>>, <<"legendary", l>> >>

\* the table with the rows of high and medium exchanged
TIER_PROBABILITIES_rowsSwapped ==
    [ exceptional |-> TierProbability(5, 30, 45, 20),
      high        |-> TierProbability(50, 35, 12, 3),
      medium      |-> TierProbability(25, 40, 28, 7),
      low         |-> TierProbability(80, 15, 4, 1) ]

\* the table with the legendary weight of the exceptional row mistyped
TIER_PROBABILITIES_mistyped ==
    [ exceptional |-> TierProbability(5, 30, 45, 25),
      high        |-> TierProbability(25, 40, 28, 7),
      medium      |-> TierProbability(50, 35, 12, 3),
      low         |-> TierProbability(80, 15, 4, 1) ]

TIER_PROBABILITIES ==
    [ exceptional |-> TierProbability(5, 30, 45, 20),
      high        |-> TierProbability(25, 40, 28, 7),
      medium      |-> TierProbability(50, 35, 12, 3),
      low         |-> TierProbability(80, 15, 4, 1) ]

\* probabilities[tier]
Weight(probabilities, tier) ==
    LET i == CHOOSE k \in 1..Len(probabilities) : probabilities[k][1] = tier
    IN  probabilities[i][2]

\* the last step of validateScore, throwing where the code corrects
verifyTotal_rejects(score) ==
    LET calculatedTotal == score.specificity.val + score.creativity.val
                           + score.coherence.val + score.complexity.val
    IN  IF Abs(calculatedTotal - score.total.val) > 1
        THEN Throw("Total score mismatch")
        ELSE Return(score)

\* the last step of validateScore, overwriting the total whatever it is
verifyTotal_always(score) ==
    LET calculatedTotal == score.specificity.val + score.creativity.val
                           + score.coherence.val + score.complexity.val
    IN  Return([score EXCEPT !.total = Num(calculatedTotal)])

\* the last step of validateScore, with a tolerance of 2
verifyTotal_tolerance2(score) ==
    LET calculatedTotal == score.specificity.val + score.creativity.val
                           + score.coherence.val + score.complexity.val
    IN  IF Abs(calculatedTotal - score.total.val) > 2
        THEN Return([score EXCEPT !.total = Num(calculatedTotal)])
        ELSE Return(score)

\* the last step of validateScore: "Verify total is correct"
verifyTotal(score) ==
    LET calculatedTotal == score.specificity.val + score.creativity.val
                           + score.coherence.val + score.complexity.val
    IN  IF Abs(calculatedTotal - score.total.val) > 1
        THEN Return([score EXCEPT !.total = Num(calculatedTotal)])
        ELSE Return(score)

\* validateScore testing the sub-scores against the upper end only
validateScore_upperOnly(score) ==
    IF score = JsNull THEN Throw("TypeError")
    ELSE
    LET specificity == score.specificity
        creativity  == score.creativity
        coherence   == score.coherence
        complexity  == score.complexity
        total       == score.total
    IN  IF \/ typeof(specificity) # "number"
           \/ typeof(creativity) # "number"
           \/ typeof(coherence) # "number"
           \/ typeof(complexity) # "number"
           \/ typeof(total) # "number"
        THEN Throw("Invalid score format")
        ELSE IF \/ specificity.val > 25
                \/ creativity.val > 25
                \/ coherence.val > 25
                \/ complexity.val > 25
        THEN Throw("Scores must be between 0 and 25")
        ELSE IF total.val < 0 \/ total.val > 100
        THEN Throw("Total score must be between 0 and 100")
        ELSE verifyTotal(score)

\* validateScore correcting the total before it tests the range of the total
validateScore_correctsFirst(score) ==
    IF score = JsNull THEN Throw("TypeError")
    ELSE
    LET specificity == score.specificity
        creativity  == score.creativity
        coherence   == score.coherence
        complexity  == score.complexity
        total       == score.total
    IN  IF \/ typeof(specificity) # "number"
           \/ typeof(creativity) # "number"
           \/ typeof(coherence) # "number"
           \/ typeof(complexity) # "number"
           \/ typeof(total) # "number"
        THEN Throw("Invalid score format")
        ELSE IF \/ specificity.val < 0 \/ specificity.val > 25
                \/ creativity.val < 0 \/ creativity.val > 25
                \/ coherence.val < 0 \/ coherence.val > 25
                \/ complexity.val < 0 \/ complexity.val > 25
        THEN Throw("Scores must be between 0 and 25")
        ELSE LET corrected == verifyTotal(score).value
             IN  IF corrected.total.val < 0 \/ corrected.total.val > 100
                 THEN Throw("Total score must be between 0 and 100")
                 ELSE Return(corrected)

\* destructuring a null document throws a TypeError before any check
validateScore(score) ==
    IF score = JsNull THEN Throw("TypeError")
    ELSE
    LET specificity == score.specificity
        creativity  == score.creativity
        coherence   == score.coherence
        complexity  == score.complexity
        total       == score.total
    IN  IF \/ typeof(specificity) # "number"
           \/ typeof(creativity) # "number"
           \/ typeof(coherence) # "number"
           \/ typeof(complexity) # "number"
           \/ typeof(total) # "number"
        THEN Throw("Invalid score format")
        ELSE IF \/ specificity.val < 0 \/ specificity.val > 25
                \/ creativity.val < 0 \/ creativity.val > 25
                \/ coherence.val < 0 \/ coherence.val > 25
                \/ complexity.val < 0 \/ complexity.val > 25
        THEN Throw("Scores must be between 0 and 25")
        ELSE IF total.val < 0 \/ total.val > 100
        THEN Throw("Total score must be between 0 and 100")
        ELSE verifyTotal(score)

\* getQualityLevel with its thresholds exclusive
getQualityLevel_exclusive(total) ==
    IF total > 86 THEN "exceptional"
    ELSE IF total > 71 THEN "high"
    ELSE IF total > 41 THEN "medium"
    ELSE "low"

getQualityLevel(total) ==
    IF total >= 86 THEN "exceptional"
    ELSE IF total >= 71 THEN "high"
    ELSE IF total >= 41 THEN "medium"
    ELSE "low"

(* rollTier's loop over Object.entries(probabilities), from entry i on,    *)
(* with `cumulative` the weight accumulated before it.  The draw is        *)
(* roll = draw / RollGrain.                                                *)
\* the loop comparing with <= in place of <
RECURSIVE rollFrom_inclusive(_, _, _, _)
rollFrom_inclusive(probabilities, draw, i, cumulative) ==
    IF i > Len(probabilities) THEN [tier |-> "common", fallback |-> TRUE]
    ELSE LET next == cumulative + probabilities[i][2]
         IN  IF draw <= next * RollGrain
             THEN [tier |-> probabilities[i][1], fallback |-> FALSE]
             ELSE rollFrom_inclusive(probabilities, draw, i + 1, next)

\* the loop stopping one entry short
RECURSIVE rollFrom_skipsLast(_, _, _, _)
rollFrom_skipsLast(probabilities, draw, i, cumulative) ==
    IF i >= Len(probabilities) THEN [tier |-> "common", fallback |-> TRUE]
    ELSE LET next == cumulative + probabilities[i][2]
         IN  IF draw < next * RollGrain
             THEN [tier |-> probabilities[i][1], fallback |-> FALSE]
             ELSE rollFrom_skipsLast(probabilities, draw, i + 1, next)

RECURSIVE rollFrom(_, _, _, _)
rollFrom(probabilities, draw, i, cumulative) ==
    IF i > Len(probabilities) THEN [tier |-> "common", fallback |-> TRUE]
    ELSE LET next == cumulative + probabilities[i][2]
         IN  IF draw < next * RollGrain
             THEN [tier |-> probabilities[i][1], fallback |-> FALSE]
             ELSE rollFrom(probabilities, draw, i + 1, next)

rollTier(probabilities, draw) == rollFrom(probabilities, draw, 1, 0)

---------------------------------------------------------------------------
(* Generator texts *)

Fence == [kind |-> "fence"]
Space == [kind |-> "space"]
Prose == [kind |-> "prose"]
Json(v) == [kind |-> "json", value |-> v]

\* text.replace(/```json\n?|\n?```/g, '')
StripFences(text) == SelectSeq(text, LAMBDA t : t.kind # "fence")

RECURSIVE TrimLeft(_)
TrimLeft(text) ==
    IF text # <<>> /\ Head(text).kind = "space" THEN TrimLeft(Tail(text))
    ELSE text

RECURSIVE TrimRight(_)
TrimRight(text) ==
    IF text # <<>> /\ text[Len(text)].kind = "space"
    THEN TrimRight(SubSeq(text, 1, Len(text) - 1))
    ELSE text

\* String.prototype.trim
Trim(text) == TrimLeft(TrimRight(text))

\* JSON.parse: one JSON document, nothing else but white space
JSONparse(text) ==
    LET body == SelectSeq(text, LAMBDA t : t.kind # "space")
    IN  IF Len(body) = 1 /\ body[1].kind = "json"
        THEN Return(body[1].value)
        ELSE Throw("SyntaxError")

\* evaluatePrompt classifying the total as parsed, before validateScore corrects it
evaluatePrompt_declaredTotal(resp, TIER_TABLE) ==
    LET cleaned == Trim(StripFences(resp.text))
        parsed  == JSONparse(cleaned)
        checked == IF parsed.ok THEN validateScore(parsed.value) ELSE parsed
    IN  IF ~checked.ok
        THEN [status |-> "threw",
              error  |-> [message |-> "Failed to parse evaluation response",
                          cause   |-> checked.error]]
        ELSE LET score             == checked.value
                 qualityLevel      == getQualityLevel(parsed.value.total.val)
                 tierProbabilities == TIER_TABLE[qualityLevel]
             IN  [status |-> "returned",
                  value  |-> [score             |-> score,
                              tierProbabilities |-> tierProbabilities,
                              qualityLevel      |-> qualityLevel]]

(* evaluatePrompt from the point where the awaited generateText resolved   *)
(* with `resp`: the try block, then the classification and the lookup in   *)
(* the module-level table as it is at that time.                           *)
evaluatePrompt(resp, TIER_TABLE) ==
    LET cleaned == Trim(StripFences(resp.text))
        parsed  == JSONparse(cleaned)
        checked == IF parsed.ok THEN validateScore(parsed.value) ELSE parsed
    IN  IF ~checked.ok
        THEN [status |-> "threw",
              error  |-> [message |-> "Failed to parse evaluation response",
                          cause   |-> checked.error]]
        ELSE LET score             == checked.value
                 qualityLevel      == getQualityLevel(score.total.val)
                 tierProbabilities == TIER_TABLE[qualityLevel]
             IN  [status |-> "returned",
                  value  |-> [score             |-> score,
                              tierProbabilities |-> tierProbabilities,
                              qualityLevel      |-> qualityLevel]]

---------------------------------------------------------------------------
(* battle-judge.service.ts *)

Str(s) == [type |-> "string", str |-> s]
\* a string of n characters whose content plays no part
Text(n) == [type |-> "string", length |-> n]

\* !v for the values a judge record holds
Falsy(v) ==
    \/ typeof(v) \in {"undefined", "null"}
    \/ typeof(v) = "string" /\ v.length = 0
    \/ typeof(v) = "number" /\ v.val = 0

\* v.length < n: a value with no length property gives undefined < n, false
LengthBelow(v, n) == typeof(v) = "string" /\ v.length < n

\* obj?.field
OptField(obj, field) ==
    IF typeof(obj) \in {"undefined", "null"} THEN Undefined ELSE obj[field]

\* the last step of validatePersonaScore, with a tolerance of 2
verifyPersonaTotal_tolerance2(score) ==
    LET calculatedTotal == score.logical_coherence.val + score.creativity.val
                           + score.persuasiveness.val + score.topic_relevance.val
    IN  IF Abs(calculatedTotal - score.total.val) > 2
        THEN Throw("Total score mismatch")
        ELSE Return(score)

\* the last step of validatePersonaScore: "Verify total"
verifyPersonaTotal(score) ==
    LET calculatedTotal == score.logical_coherence.val + score.creativity.val
                           + score.persuasiveness.val + score.topic_relevance.val
    IN  IF Abs(calculatedTotal - score.total.val) > 1
        THEN Throw("Total score mismatch")
        ELSE Return(score)

\* validatePersonaScore with topic_relevance left out of the typeof test:
\* a value that is not a number then fails none of the comparisons made
\* with it or with the sum
validatePersonaScore_relevanceUntyped(score) ==
    IF typeof(score) \in {"undefined", "null"} THEN Throw("TypeError")
    ELSE
    LET logical_coherence == score.logical_coherence
        creativity        == score.creativity
        persuasiveness    == score.persuasiveness
        topic_relevance   == score.topic_relevance
        total             == score.total
    IN  IF \/ typeof(logical_coherence) # "number"
           \/ typeof(creativity) # "number"
           \/ typeof(persuasiveness) # "number"
           \/ typeof(total) # "number"
        THEN Throw("Invalid score types")
        ELSE IF logical_coherence.val < 0 \/ logical_coherence.val > 30
        THEN Throw("logical_coherence must be 0-30")
        ELSE IF creativity.val < 0 \/ creativity.val > 25
        THEN Throw("creativity must be 0-25")
        ELSE IF persuasiveness.val < 0 \/ persuasiveness.val > 25
        THEN Throw("persuasiveness must be 0-25")
        ELSE IF typeof(topic_relevance) # "number"
        THEN IF total.val < 0 \/ total.val > 100
             THEN Throw("total must be 0-100")
             ELSE Return(score)
        ELSE IF topic_relevance.val < 0 \/ topic_relevance.val > 20
        THEN Throw("topic_relevance must be 0-20")
        ELSE IF total.val < 0 \/ total.val > 100
        THEN Throw("total must be 0-100")
        ELSE verifyPersonaTotal(score)

\* destructuring a missing score throws a TypeError before any check
validatePersonaScore(score) ==
    IF typeof(score) \in {"undefined", "null"} THEN Throw("TypeError")
    ELSE
    LET logical_coherence == score.logical_coherence
        creativity        == score.creativity
        persuasiveness    == score.persuasiveness
        topic_relevance   == score.topic_relevance
        total             == score.total
    IN  IF \/ typeof(logical_coherence) # "number"
           \/ typeof(creativity) # "number"
           \/ typeof(persuasiveness) # "number"
           \/ typeof(topic_relevance) # "number"
           \/ typeof(total) # "number"
        THEN Throw("Invalid score types")
        ELSE IF logical_coherence.val < 0 \/ logical_coherence.val > 30
        THEN Throw("logical_coherence must be 0-30")
        ELSE IF creativity.val < 0 \/ creativity.val > 25
        THEN Throw("creativity must be 0-25")
        ELSE IF persuasiveness.val < 0 \/ persuasiveness.val > 25
        THEN Throw("persuasiveness must be 0-25")
        ELSE IF topic_relevance.val < 0 \/ topic_relevance.val > 20
        THEN Throw("topic_relevance must be 0-20")
        ELSE IF total.val < 0 \/ total.val > 100
        THEN Throw("total must be 0-100")
        ELSE verifyPersonaTotal(score)

\* validateWinnerAndFields with the second winner check comparing as the first does
validateWinnerAndFields_sameComparison(result) ==
    LET p1Total == result.scores.persona1.total.val
        p2Total == result.scores.persona2.total.val
    IN  IF result.winner = Str("persona1") /\ p1Total < p2Total
        THEN Throw("Winner mismatch: persona1 declared but has lower score")
        ELSE IF result.winner = Str("persona2") /\ p1Total < p2Total
        THEN Throw("Winner mismatch: persona2 declared but has lower score")
        ELSE IF Falsy(result.reasoning) \/ LengthBelow(result.reasoning, 20)
        THEN Throw("Reasoning must be at least 20 characters")
        ELSE IF \/ Falsy(OptField(result.highlights, "persona1_best"))
                \/ Falsy(OptField(result.highlights, "persona2_best"))
        THEN Throw("Missing highlights")
        ELSE IF \/ Falsy(OptField(result.improvement_suggestions, "persona1"))
                \/ Falsy(OptField(result.improvement_suggestions, "persona2"))
        THEN Throw("Missing improvement suggestions")
        ELSE Return(result)

\* the checks after the scores, with the tie-break of the judge prompt
\* enforced: totals within 3 are won on persuasiveness
validateWinnerAndFields_tieBreak(result) ==
    LET p1Total == result.scores.persona1.total.val
        p2Total == result.scores.persona2.total.val
    IN  IF result.winner = Str("persona1") /\ p1Total < p2Total
        THEN Throw("Winner mismatch: persona1 declared but has lower score")
        ELSE IF result.winner = Str("persona2") /\ p2Total < p1Total
        THEN Throw("Winner mismatch: persona2 declared but has lower score")
        ELSE IF /\ Abs(p1Total - p2Total) <= 3
                /\ result.scores[result.winner.str].persuasiveness.val
                     < result.scores[IF result.winner = Str("persona1")
                                     THEN "persona2"
                                     ELSE "persona1"].persuasiveness.val
        THEN Throw("Winner mismatch: tie-break by persuasiveness")
        ELSE IF Falsy(result.reasoning) \/ LengthBelow(result.reasoning, 20)
        THEN Throw("Reasoning must be at least 20 characters")
        ELSE IF \/ Falsy(OptField(result.highlights, "persona1_best"))
                \/ Falsy(OptField(result.highlights, "persona2_best"))
        THEN Throw("Missing highlights")
        ELSE IF \/ Falsy(OptField(result.improvement_suggestions, "persona1"))
                \/ Falsy(OptField(result.improvement_suggestions, "persona2"))
        THEN Throw("Missing improvement suggestions")
        ELSE Return(result)

\* the checks of validateJudgeResult that follow the two validatePersonaScore calls
validateWinnerAndFields(result) ==
    LET p1Total == result.scores.persona1.total.val
        p2Total == result.scores.persona2.total.val
    IN  IF result.winner = Str("persona1") /\ p1Total < p2Total
        THEN Throw("Winner mismatch: persona1 declared but has lower score")
        ELSE IF result.winner = Str("persona2") /\ p2Total < p1Total
        THEN Throw("Winner mismatch: persona2 declared but has lower score")
        ELSE IF Falsy(result.reasoning) \/ LengthBelow(result.reasoning, 20)
        THEN Throw("Reasoning must be at least 20 characters")
        ELSE IF \/ Falsy(OptField(result.highlights, "persona1_best"))
                \/ Falsy(OptField(result.highlights, "persona2_best"))
        THEN Throw("Missing highlights")
        ELSE IF \/ Falsy(OptField(result.improvement_suggestions, "persona1"))
                \/ Falsy(OptField(result.improvement_suggestions, "persona2"))
        THEN Throw("Missing improvement suggestions")
        ELSE Return(result)

\* validateJudgeResult looking at the scores before the winner
validateJudgeResult_scoresFirst(result) ==
    IF typeof(result) \in {"undefined", "null"} THEN Throw("TypeError")
    ELSE IF typeof(result.scores) \in {"undefined", "null"} THEN Throw("TypeError")
    ELSE LET s1 == validatePersonaScore(result.scores.persona1)
             s2 == validatePersonaScore(result.scores.persona2)
         IN  IF ~s1.ok THEN s1
             ELSE IF ~s2.ok THEN s2
             ELSE IF result.winner \notin {Str("persona1"), Str("persona2")}
             THEN Throw("Invalid winner value")
             ELSE validateWinnerAndFields(result)

\* result.winner of a null document, and result.scores.persona1 of a missing
\* scores object, throw a TypeError
validateJudgeResult(result) ==
    IF typeof(result) \in {"undefined", "null"} THEN Throw("TypeError")
    ELSE IF result.winner \notin {Str("persona1"), Str("persona2")}
    THEN Throw("Invalid winner value")
    ELSE IF typeof(result.scores) \in {"undefined", "null"} THEN Throw("TypeError")
    ELSE LET s1 == validatePersonaScore(result.scores.persona1)
             s2 == validatePersonaScore(result.scores.persona2)
         IN  IF ~s1.ok THEN s1
             ELSE IF ~s2.ok THEN s2
             ELSE validateWinnerAndFields(result)

\* judgeBattle without its try/catch: a failure leaves as the bare cause
judgeBattle_unwrapped(resp) ==
    LET cleaned == Trim(StripFences(resp.text))
        parsed  == JSONparse(cleaned)
        checked == IF parsed.ok THEN validateJudgeResult(parsed.value) ELSE parsed
    IN  IF ~checked.ok
        THEN [status |-> "threw", error |-> [message |-> checked.error]]
        ELSE [status |-> "returned", value |-> parsed.value]

(* judgeBattle from the point where the awaited generateText resolved with *)
(* `resp`: the try block and the return.                                   *)
judgeBattle(resp) ==
    LET cleaned == Trim(StripFences(resp.text))
        parsed  == JSONparse(cleaned)
        checked == IF parsed.ok THEN validateJudgeResult(parsed.value) ELSE parsed
    IN  IF ~checked.ok
        THEN [status |-> "threw",
              error  |-> [message |-> "Failed to parse judge response",
                          cause   |-> checked.error]]
        ELSE [status |-> "returned", value |-> parsed.value]

---------------------------------------------------------------------------
(* Inputs: what the generator may answer to an evaluation prompt *)

FinishReasons == {"stop", "length", "content_filter"}

\* errors aiProvider.generateText rejects with
ProviderErrors == {"RateLimitError", "ContentFilterError", "AIProviderError"}

PromptInRange == {Num(0), Num(10), Num(20), Num(25)}
PromptFaulty == {Undefined, Num(0 - Over), Num(12), Num(25 + Over)}

PromptSubScores ==
    (PromptInRange \X PromptInRange \X PromptInRange \X PromptInRange)
    \cup (PromptFaulty \X PromptFaulty \X PromptFaulty \X PromptFaulty)
    \cup { <<Num(20), Num(18), Num(22), Num(15)>> }

\* the value of a sub-score where it is a number, for drawing totals near the sum
ValOr0(v) == IF typeof(v) = "number" THEN v.val ELSE 0

SumOf(t) == ValOr0(t[1]) + ValOr0(t[2]) + ValOr0(t[3]) + ValOr0(t[4])

DeclaredTotals(sum) ==
    { Num(sum + d) : d \in (0 - Slack)..Slack }
    \cup { Num(0 - Over), Num(0), Num(100), Num(100 + Over), Undefined }

PromptScoreObject(t, total) ==
    [type        |-> "object",
     specificity |-> t[1],
     creativity  |-> t[2],
     coherence   |-> t[3],
     complexity  |-> t[4],
     total       |-> total,
     reasoning   |-> "Well-structured and specific."]

PromptScoreObjects ==
    UNION { { PromptScoreObject(t, total) : total \in DeclaredTotals(SumOf(t)) }
            : t \in PromptSubScores }

\* the documents also sent inside a code fence, or with prose around them
PromptSamples ==
    { PromptScoreObject(<<Num(20), Num(18), Num(22), Num(15)>>, Num(74)),
      PromptScoreObject(<<Num(25), Num(25), Num(25), Num(25)>>, Num(90)),
      PromptScoreObject(<<Num(10), Num(10), Num(10), Num(10)>>, Undefined) }

EvaluationTexts ==
    { <<Json(o)>> : o \in PromptScoreObjects \cup {JsNull} }
    \cup { <<Fence, Json(o), Fence>> : o \in PromptSamples }
    \cup { <<Space, Fence, Json(o), Space, Fence, Space>> : o \in PromptSamples }
    \cup { <<Prose, Json(o)>> : o \in PromptSamples }
    \cup { <<>>, <<Prose>>, <<Fence, Fence>> }

EvaluationResponses ==
    { [text |-> t, finishReason |-> f] : t \in EvaluationTexts, f \in FinishReasons }

---------------------------------------------------------------------------
(* Inputs: what the generator may answer to a judge prompt *)

\* sub-scores within their intervals: the extremes, and sums of 50, 51 and 52
PersonaInRange ==
    { <<Num(0), Num(0), Num(0), Num(0)>>,
      <<Num(30), Num(25), Num(25), Num(20)>>,
      <<Num(15), Num(12), Num(13), Num(10)>>,
      <<Num(14), Num(12), Num(14), Num(10)>>,
      <<Num(15), Num(12), Num(14), Num(10)>>,
      <<Num(16), Num(13), Num(11), Num(12)>> }

\* each field as in the third tuple above, missing, or outside its interval
PersonaFaulty ==
    {Num(15), Undefined, Num(0 - Over), Num(30 + Over)}
    \X {Num(12), Undefined, Num(0 - Over), Num(25 + Over)}
    \X {Num(13), Undefined, Num(0 - Over), Num(25 + Over)}
    \X {Num(10), Undefined, Num(0 - Over), Num(20 + Over)}

PersonaScoreObject(t, total) ==
    [type              |-> "object",
     logical_coherence |-> t[1],
     creativity        |-> t[2],
     persuasiveness    |-> t[3],
     topic_relevance   |-> t[4],
     total             |-> total]

PersonaScoresInRange ==
    UNION { { PersonaScoreObject(t, Num(SumOf(t) + d)) : d \in (0 - Slack)..Slack }
            \cup { PersonaScoreObject(t, Undefined) }
            : t \in PersonaInRange }

PersonaScoresFaulty ==
    { PersonaScoreObject(t, Num(50)) : t \in PersonaFaulty } \cup { Undefined }

\* scores that pass validation, to pair with any other
PersonaScoresPlain ==
    { PersonaScoreObject(<<Num(15), Num(12), Num(13), Num(10)>>, Num(50)),
      PersonaScoreObject(<<Num(16), Num(13), Num(11), Num(12)>>, Num(51)),
      PersonaScoreObject(<<Num(30), Num(25), Num(25), Num(20)>>, Num(100)) }

ScorePairs ==
    (PersonaScoresInRange \X PersonaScoresInRange)
    \cup (PersonaScoresFaulty \X PersonaScoresPlain)
    \cup (PersonaScoresPlain \X PersonaScoresFaulty)

ScoresObject(pair) ==
    [type |-> "object", persona1 |-> pair[1], persona2 |-> pair[2]]

Winners == {Str("persona1"), Str("persona2"), Str("tie"), Undefined}

NarrativeValues == {Undefined, Text(0), Text(12)}

Reasonings == {Undefined, JsNull, Text(0), Text(19), Text(20), Num(7)}

HighlightsObjects ==
    { [type |-> "object", persona1_best |-> a, persona2_best |-> b]
      : a \in NarrativeValues, b \in NarrativeValues } \cup { Undefined }

SuggestionsObjects ==
    { [type |-> "object", persona1 |-> a, persona2 |-> b]
      : a \in NarrativeValues, b \in NarrativeValues } \cup { Undefined }

JudgeObject(winner, scores, reasoning, highlights, suggestions) ==
    [type                    |-> "object",
     winner                  |-> winner,
     scores                  |-> scores,
     reasoning               |-> reasoning,
     highlights              |-> highlights,
     improvement_suggestions |-> suggestions]

GoodHighlights ==
    [type |-> "object", persona1_best |-> Text(12), persona2_best |-> Text(12)]

GoodSuggestions ==
    [type |-> "object", persona1 |-> Text(12), persona2 |-> Text(12)]

\* every pair of scores and every winner, with the narrative fields in order
JudgeObjectsByScore ==
    { JudgeObject(w, ScoresObject(pair), Text(20), GoodHighlights, GoodSuggestions)
      : w \in Winners, pair \in ScorePairs }
    \cup { JudgeObject(w, Undefined, Text(20), GoodHighlights, GoodSuggestions)
           : w \in Winners }

NarrativePairs ==
    { <<PersonaScoreObject(<<Num(16), Num(13), Num(11), Num(12)>>, Num(52)),
        PersonaScoreObject(<<Num(15), Num(12), Num(13), Num(10)>>, Num(50))>>,
      <<PersonaScoreObject(<<Num(15), Num(12), Num(13), Num(10)>>, Num(50)),
        PersonaScoreObject(<<Num(14), Num(12), Num(14), Num(10)>>, Num(50))>> }

\* every shape of the narrative fields, on scores that pass validation
JudgeObjectsByNarrative ==
    { JudgeObject(w, ScoresObject(pair), r, h, s)
      : w \in {Str("persona1"), Str("persona2")}, pair \in NarrativePairs,
        r \in Reasonings, h \in HighlightsObjects, s \in SuggestionsObjects }

JudgeSamples ==
    { JudgeObject(Str("persona1"), ScoresObject(pair), Text(20),
                  GoodHighlights, GoodSuggestions) : pair \in NarrativePairs }

JudgeTexts ==
    { <<Json(o)>> : o \in JudgeObjectsByScore \cup JudgeObjectsByNarrative \cup {JsNull} }
    \cup { <<Fence, Json(o), Fence>> : o \in JudgeSamples }
    \cup { <<Space, Fence, Json(o), Space, Fence, Space>> : o \in JudgeSamples }
    \cup { <<Prose, Json(o)>> : o \in JudgeSamples }
    \cup { <<>>, <<Prose>>, <<Fence, Fence>> }

JudgeResponses ==
    { [text |-> t, finishReason |-> f] : t \in JudgeTexts, f \in FinishReasons }

---------------------------------------------------------------------------
(* PromptEvaluationService.evaluatePrompt as a process *)

NoResponse == [settled |-> "none"]
NoOutcome == [status |-> "none"]
NoProviderCall == [pc |-> "idle"]

InitGacha ==
    /\ qlTotal = 0
    /\ qlLevel = "none"
    /\ rollProbs = <<>>
    /\ rollDraw = 0
    /\ rollTierOut = "none"
    /\ rollFallback = FALSE
    /\ table = TIER_PROBABILITIES

InitPipeline ==
    /\ pc = "idle"
    /\ service = "none"
    /\ log = <<>>
    /\ calls = 0
    /\ genCalls = 0
    /\ response = NoResponse
    /\ outcome = NoOutcome

InitProvider == bedrock = NoProviderCall

Init == InitPipeline /\ InitGacha /\ InitProvider

gachaVars == <<qlTotal, qlLevel, rollProbs, rollDraw, rollTierOut, rollFallback, table>>
pipelineVars == <<pc, service, calls, genCalls, response, outcome, log>>
providerVars == <<bedrock>>

\* a caller invokes evaluatePrompt: the code runs up to `await generateText`
EvalCall ==
    /\ pc \in {"idle", "done"}
    /\ calls < MaxCalls
    /\ pc' = "awaiting"
    /\ service' = "evaluatePrompt"
    /\ calls' = calls + 1
    /\ genCalls' = genCalls + 1
    /\ response' = NoResponse
    /\ outcome' = NoOutcome
    /\ UNCHANGED log
    /\ UNCHANGED gachaVars
    /\ UNCHANGED providerVars

\* evaluatePrompt asking the generator again after a failed answer
EvalResume_retries ==
    /\ pc = "awaiting"
    /\ service = "evaluatePrompt"
    /\ \E resp \in EvaluationResponses :
          LET result == evaluatePrompt(resp, table)
          IN  IF result.status = "threw" /\ genCalls = calls
              THEN /\ genCalls' = genCalls + 1
                   /\ UNCHANGED <<pc, response, outcome>>
              ELSE /\ genCalls' = genCalls
                   /\ response' = [settled |-> "resolved", value |-> resp]
                   /\ outcome' = result
                   /\ pc' = "done"
    /\ UNCHANGED <<service, calls, log>>
    /\ UNCHANGED gachaVars
    /\ UNCHANGED providerVars

\* the rest of evaluatePrompt, run to its end on the answer resp
EvalSettle(resp) ==
    /\ response' = [settled |-> "resolved", value |-> resp]
    /\ outcome' = evaluatePrompt(resp, table)
    /\ pc' = "done"
    /\ UNCHANGED <<service, calls, genCalls>>
    /\ UNCHANGED gachaVars
    /\ UNCHANGED providerVars

\* generateText resolves
EvalResume ==
    /\ pc = "awaiting"
    /\ service = "evaluatePrompt"
    /\ \E resp \in EvaluationResponses : EvalSettle(resp)
    /\ UNCHANGED log

\* evaluatePrompt with the await inside its try block: the catch wraps the
\* generator's error as a parse failure
EvalReject_wrapped ==
    /\ pc = "awaiting"
    /\ service = "evaluatePrompt"
    /\ \E e \in ProviderErrors :
          /\ response' = [settled |-> "rejected", error |-> e]
          /\ outcome' = [status |-> "threw",
                         error  |-> [message |-> "Failed to parse evaluation response",
                                     cause   |-> e]]
    /\ pc' = "done"
    /\ UNCHANGED <<service, calls, genCalls, log>>
    /\ UNCHANGED gachaVars
    /\ UNCHANGED providerVars

\* generateText rejects: evaluatePrompt has no handler around the await
EvalReject ==
    /\ pc = "awaiting"
    /\ service = "evaluatePrompt"
    /\ \E e \in ProviderErrors :
          /\ response' = [settled |-> "rejected", error |-> e]
          /\ outcome' = [status |-> "threw", error |-> [name |-> e]]
    /\ pc' = "done"
    /\ UNCHANGED <<service, calls, genCalls, log>>
    /\ UNCHANGED gachaVars
    /\ UNCHANGED providerVars

NextEval == EvalCall \/ EvalResume \/ EvalReject

SpecEval == Init /\ [][NextEval]_vars

---------------------------------------------------------------------------
(* BattleJudgeService.judgeBattle as a process *)

\* a caller invokes judgeBattle: the code runs up to `await generateText`
JudgeCall ==
    /\ pc \in {"idle", "done"}
    /\ calls < MaxCalls
    /\ pc' = "awaiting"
    /\ service' = "judgeBattle"
    /\ calls' = calls + 1
    /\ genCalls' = genCalls + 1
    /\ response' = NoResponse
    /\ outcome' = NoOutcome
    /\ UNCHANGED log
    /\ UNCHANGED gachaVars
    /\ UNCHANGED providerVars

\* the rest of judgeBattle, run to its end on the answer resp
JudgeSettle(resp) ==
    /\ response' = [settled |-> "resolved", value |-> resp]
    /\ outcome' = judgeBattle(resp)
    /\ pc' = "done"
    /\ UNCHANGED <<service, calls, genCalls>>
    /\ UNCHANGED gachaVars
    /\ UNCHANGED providerVars

\* generateText resolves
JudgeResume ==
    /\ pc = "awaiting"
    /\ service = "judgeBattle"
    /\ \E resp \in JudgeResponses : JudgeSettle(resp)
    /\ UNCHANGED log

\* generateText rejects: judgeBattle has no handler around the await
JudgeReject ==
    /\ pc = "awaiting"
    /\ service = "judgeBattle"
    /\ \E e \in ProviderErrors :
          /\ response' = [settled |-> "rejected", error |-> e]
          /\ outcome' = [status |-> "threw", error |-> [name |-> e]]
    /\ pc' = "done"
    /\ UNCHANGED <<service, calls, genCalls, log>>
    /\ UNCHANGED gachaVars
    /\ UNCHANGED providerVars

NextJudge == JudgeCall \/ JudgeResume \/ JudgeReject

SpecJudge == Init /\ [][NextJudge]_vars

---------------------------------------------------------------------------
(* A caller that writes to the result it received.  evaluatePrompt returns *)
(* TIER_PROBABILITIES[qualityLevel] itself, not a copy, so an assignment   *)
(* to a property of result.tierProbabilities is an assignment to the row   *)
(* of the module-level table.  `outcome` keeps what the call returned at   *)
(* the moment it returned.                                                 *)

\* the assignments the caller makes: <<property, value>>
CallerWrites == { <<"legendary", 100>> }

\* probabilities[tier] = weight
SetWeight(probabilities, tier, weight) ==
    [i \in DOMAIN probabilities |->
        IF probabilities[i][1] = tier THEN <<tier, weight>> ELSE probabilities[i]]

CallerWrite ==
    /\ pc = "done"
    /\ service = "evaluatePrompt"
    /\ outcome.status = "returned"
    /\ \E w \in CallerWrites :
          LET qualityLevel == outcome.value.qualityLevel
          IN  /\ Weight(table[qualityLevel], w[1]) # w[2]
              /\ table' = [table EXCEPT
                              ![qualityLevel] = SetWeight(@, w[1], w[2])]
    /\ UNCHANGED pipelineVars
    /\ UNCHANGED providerVars
    /\ UNCHANGED <<qlTotal, qlLevel, rollProbs, rollDraw, rollTierOut, rollFallback>>

NextAlias == EvalCall \/ EvalResume \/ EvalReject \/ CallerWrite

SpecAlias == Init /\ [][NextAlias]_vars

---------------------------------------------------------------------------
(* A caller that uses both services, keeps what each settled call gave it  *)
(* for the text the generator sent, and may write to a result it holds.    *)
(* The generator answers from a few texts, so that it repeats itself.      *)

TwinEvaluationResponses ==
    { [text |-> t, finishReason |-> f] :
        t \in { <<Json(o)>> : o \in PromptSamples }
              \cup { <<Fence, Json(o), Fence>> : o \in PromptSamples }
              \cup { <<Prose>> },
        f \in FinishReasons }

TwinJudgeResponses ==
    { [text |-> t, finishReason |-> f] :
        t \in { <<Json(o)>> : o \in JudgeSamples }
              \cup { <<Fence, Json(o), Fence>> : o \in JudgeSamples }
              \cup { <<Prose>> },
        f \in FinishReasons }

\* the caller notes the method, the generator text and what the call gave
Keep(resp) ==
    log' = Append(log, [service |-> service, text |-> resp.text,
                        outcome |-> outcome'])

TwinEvalResume ==
    /\ pc = "awaiting"
    /\ service = "evaluatePrompt"
    /\ \E resp \in TwinEvaluationResponses : EvalSettle(resp) /\ Keep(resp)

TwinJudgeResume ==
    /\ pc = "awaiting"
    /\ service = "judgeBattle"
    /\ \E resp \in TwinJudgeResponses : JudgeSettle(resp) /\ Keep(resp)

NextTwin ==
    EvalCall \/ JudgeCall \/ TwinEvalResume \/ TwinJudgeResume \/ CallerWrite

SpecTwin == Init /\ [][NextTwin]_vars

---------------------------------------------------------------------------
(* Both services of the core in one process: a caller uses either method, *)
(* one call at a time                                                      *)

Next == NextEval \/ NextJudge

Spec == Init /\ [][Next]_vars

---------------------------------------------------------------------------
(* getQualityLevel and rollTier applied to drawn arguments *)

ClassifierTotals == (0 - Over)..(100 + Over)

RollDraws == 0..(100 * RollGrain - 1)

\* the four rows of the table, and objects a caller may pass instead
RollDistributions ==
    { table[q] : q \in QualityLevels }
    \cup { TierProbability(0, 0, 0, 0),
           TierProbability(5, 30, 45, 10),
           TierProbability(0, 50, 0, 0),
           << <<"legendary", 20>>, <<"epic", 45>>, <<"rare", 30>>, <<"common", 5>> >> }

\* nothing has been applied since the last result was dropped
Fresh == qlLevel = "none" /\ rollTierOut = "none"

Classify ==
    /\ Fresh
    /\ \E total \in ClassifierTotals :
          /\ qlTotal' = total
          /\ qlLevel' = getQualityLevel(total)
    /\ rollProbs' = <<>>
    /\ rollDraw' = 0
    /\ rollTierOut' = "none"
    /\ rollFallback' = FALSE
    /\ UNCHANGED <<table, pipelineVars>>
    /\ UNCHANGED providerVars

Roll ==
    /\ Fresh
    /\ \E probabilities \in RollDistributions, draw \in RollDraws :
          /\ rollProbs' = probabilities
          /\ rollDraw' = draw
          /\ rollTierOut' = rollTier(probabilities, draw).tier
          /\ rollFallback' = rollTier(probabilities, draw).fallback
    /\ qlTotal' = 0
    /\ qlLevel' = "none"
    /\ UNCHANGED <<table, pipelineVars>>
    /\ UNCHANGED providerVars

\* the caller drops the result; neither function keeps anything
Discard ==
    /\ ~Fresh
    /\ qlTotal' = 0
    /\ qlLevel' = "none"
    /\ rollProbs' = <<>>
    /\ rollDraw' = 0
    /\ rollTierOut' = "none"
    /\ rollFallback' = FALSE
    /\ UNCHANGED <<table, pipelineVars>>
    /\ UNCHANGED providerVars

NextGacha == Classify \/ Roll \/ Discard

SpecGacha == Init /\ [][NextGacha]_vars

---------------------------------------------------------------------------
(* BedrockProvider.  An error is a record with the class that built it and *)
(* its name; `instanceof C` holds for the class C and its subclasses.      *)

\* new AIProviderError(message, 'bedrock', originalError)
AIProviderError(message, originalError) ==
    [class |-> "AIProviderError", name |-> "AIProviderError",
     message |-> message, provider |-> "bedrock", originalError |-> originalError]

\* new RateLimitError('bedrock', retryAfter)
RateLimitError(retryAfter) ==
    [class |-> "RateLimitError", name |-> "RateLimitError",
     message |-> "Rate limit exceeded for bedrock", provider |-> "bedrock",
     retryAfter |-> retryAfter]

\* new ContentFilterError('bedrock', reason)
ContentFilterError(reason) ==
    [class |-> "ContentFilterError", name |-> "ContentFilterError",
     message |-> "Content filtered", provider |-> "bedrock", reason |-> reason]

\* an error the AWS client or the runtime raises
ForeignError(name) == [class |-> "Error", name |-> name]

NoOriginal == [class |-> "none", name |-> "none"]

\* mapStopReason with content_filtered falling into the default branch
mapStopReason_reportsFilter(stopReason) ==
    IF stopReason \in {Str("end_turn"), Str("stop_sequence")} THEN "stop"
    ELSE IF stopReason = Str("max_tokens") THEN "length"
    ELSE "content_filter"

mapStopReason(stopReason) ==
    IF stopReason \in {Str("end_turn"), Str("stop_sequence")} THEN "stop"
    ELSE IF stopReason = Str("max_tokens") THEN "length"
    ELSE IF stopReason = Str("content_filtered") THEN "content_filter"
    ELSE "stop"

\* content?.find(c => c.type === 'text')
RECURSIVE findTextFrom(_, _)
findTextFrom(content, i) ==
    IF i > Len(content) THEN Undefined
    ELSE IF content[i].type = "text" THEN content[i]
    ELSE findTextFrom(content, i + 1)

findText(content) ==
    IF content = Undefined THEN Undefined ELSE findTextFrom(content.items, 1)

\* the try block of generateText from the point where client.send settled
generateTextTry(sent) ==
    IF sent.settled = "rejected" THEN Throw(sent.error)
    ELSE IF sent.body.kind = "unparsable" THEN Throw(ForeignError("SyntaxError"))
    ELSE LET responseBody == sent.body.json
         IN  IF responseBody = JsNull THEN Throw(ForeignError("TypeError"))
             ELSE IF responseBody.stop_reason = Str("content_filtered")
             THEN Throw(ContentFilterError("Content was filtered by safety policies"))
             ELSE LET textContent == findText(responseBody.content)
                  IN  IF textContent = Undefined
                      THEN Throw(AIProviderError("No text content in response",
                                                 NoOriginal))
                      ELSE Return([text |-> textContent.text,
                                   finishReason |->
                                       mapStopReason(responseBody.stop_reason)])

\* the catch block of generateText without its instanceof test
generateTextCatch_wrapsAll(error) ==
    IF error.name = "ThrottlingException" THEN Throw(RateLimitError(60))
    ELSE Throw(AIProviderError("Bedrock text generation failed", error))

\* the catch block of generateText
generateTextCatch(error) ==
    IF error.name = "ThrottlingException" THEN Throw(RateLimitError(60))
    ELSE IF error.class \in {"ContentFilterError", "RateLimitError"} THEN Throw(error)
    ELSE Throw(AIProviderError("Bedrock text generation failed", error))

generateText(sent) ==
    LET tried == generateTextTry(sent)
    IN  IF tried.ok THEN tried ELSE generateTextCatch(tried.error)

\* request.width || 1024
dimensionOr1024(v) == IF Falsy(v) THEN 1024 ELSE v.val

\* [512, 1024].includes(width) && [512, 1024].includes(height)
dimensionsAccepted(width, height) ==
    width \in {512, 1024} /\ height \in {512, 1024}

\* the catch block of generateImage
generateImageCatch(error) ==
    IF error.name = "ThrottlingException" THEN Throw(RateLimitError(60))
    ELSE IF error.class = "RateLimitError" THEN Throw(error)
    ELSE Throw(AIProviderError("Bedrock image generation failed", error))

\* the try block of generateImage; `sent` is read only when the dimensions
\* were accepted and client.send was called
generateImageTry(request, sent) ==
    LET width  == dimensionOr1024(request.width)
        height == dimensionOr1024(request.height)
    IN  IF ~dimensionsAccepted(width, height)
        THEN Throw(AIProviderError(
                 "Invalid dimensions. Titan supports 512x512 or 1024x1024",
                 NoOriginal))
        ELSE IF sent.settled = "rejected" THEN Throw(sent.error)
        ELSE IF sent.body.kind = "unparsable" THEN Throw(ForeignError("SyntaxError"))
        ELSE LET responseBody == sent.body.json
             IN  IF responseBody = JsNull THEN Throw(ForeignError("TypeError"))
                 ELSE IF \/ responseBody.images = Undefined
                         \/ Len(responseBody.images.items) = 0
                 THEN Throw(AIProviderError("No images generated", NoOriginal))
                 ELSE Return([base64 |-> responseBody.images.items[1],
                              dimensions |-> [width |-> width, height |-> height]])

generateImage(request, sent) ==
    LET tried == generateImageTry(request, sent)
    IN  IF tried.ok THEN tried ELSE generateImageCatch(tried.error)

(* What the AWS client may settle with *)

Array(items) == [type |-> "array", items |-> items]
Rejected(name) == [settled |-> "rejected", error |-> ForeignError(name)]
Resolved200(json) == [settled |-> "resolved", body |-> [kind |-> "json", json |-> json]]
Unparsable == [settled |-> "resolved", body |-> [kind |-> "unparsable"]]
NotSent == [settled |-> "none"]

ClientErrors == {"ThrottlingException", "AccessDeniedException", "TimeoutError"}

StopReasons ==
    {Str("end_turn"), Str("stop_sequence"), Str("max_tokens"),
     Str("content_filtered"), Str("tool_use"), Undefined}

TextBlock == [type |-> "text", text |-> Text(12)]
ToolBlock == [type |-> "tool_use"]

Contents ==
    {Undefined, Array(<<>>), Array(<<ToolBlock>>), Array(<<TextBlock>>),
     Array(<<ToolBlock, TextBlock>>)}

TextSendOutcomes ==
    { Rejected(n) : n \in ClientErrors }
    \cup { Unparsable, Resolved200(JsNull) }
    \cup { Resolved200([type |-> "object", stop_reason |-> r, content |-> c])
           : r \in StopReasons, c \in Contents }

Dimensions ==
    {Undefined, Num(0), Num(256), Num(512), Num(513), Num(768), Num(1024), Num(2048)}

ImageRequests == { [width |-> w, height |-> h] : w \in Dimensions, h \in Dimensions }

ImageSendOutcomes ==
    { Rejected(n) : n \in ClientErrors }
    \cup { Unparsable, Resolved200(JsNull) }
    \cup { Resolved200([type |-> "object", images |-> i])
           : i \in {Undefined, Array(<<>>), Array(<<"iVBORw0KGgo=">>)} }

(* BedrockProvider as a process: one call at a time, each split at the     *)
(* `await this.client.send(command)`                                       *)

\* a caller invokes generateText: the payload is built and the command sent
TextCall ==
    /\ bedrock.pc \in {"idle", "done"}
    /\ bedrock' = [pc |-> "sending", op |-> "generateText", invoked |-> TRUE]
    /\ UNCHANGED <<pipelineVars, gachaVars>>

\* client.send settles: the rest of generateText runs to its end
TextSettle ==
    /\ bedrock.pc = "sending"
    /\ bedrock.op = "generateText"
    /\ \E sent \in TextSendOutcomes :
          bedrock' = [pc |-> "done", op |-> "generateText", invoked |-> TRUE,
                      sent |-> sent, result |-> generateText(sent)]
    /\ UNCHANGED <<pipelineVars, gachaVars>>

\* a caller invokes generateImage: either the dimensions are refused and the
\* call ends there, or the command is sent
ImageCall ==
    /\ bedrock.pc \in {"idle", "done"}
    /\ \E request \in ImageRequests :
          IF dimensionsAccepted(dimensionOr1024(request.width),
                                dimensionOr1024(request.height))
          THEN bedrock' = [pc |-> "sending", op |-> "generateImage",
                           invoked |-> TRUE, request |-> request]
          ELSE bedrock' = [pc |-> "done", op |-> "generateImage",
                           invoked |-> FALSE, request |-> request,
                           sent |-> NotSent,
                           result |-> generateImage(request, NotSent)]
    /\ UNCHANGED <<pipelineVars, gachaVars>>

\* client.send settles: the rest of generateImage runs to its end
ImageSettle ==
    /\ bedrock.pc = "sending"
    /\ bedrock.op = "generateImage"
    /\ \E sent \in ImageSendOutcomes :
          bedrock' = [pc |-> "done", op |-> "generateImage", invoked |-> TRUE,
                      request |-> bedrock.request, sent |-> sent,
                      result |-> generateImage(bedrock.request, sent)]
    /\ UNCHANGED <<pipelineVars, gachaVars>>

NextBedrock == TextCall \/ TextSettle \/ ImageCall \/ ImageSettle

SpecBedrock == Init /\ [][NextBedrock]_vars

---------------------------------------------------------------------------
(* The properties checked.  They are stated on the generator's answer and   *)
(* the outcome of the call, with the ranges and bands written out here.    *)

IsNumber(v) == v.type = "number"
IsObject(v) == v.type = "object"

\* the call in progress has run to its end on an answer of the generator
Resolved == pc = "done" /\ response.settled = "resolved"

\* the document the answer holds once fences and white space are removed
Parsed == JSONparse(Trim(StripFences(response.value.text)))

PersonaSubsAreNumbers(sc) ==
    /\ IsNumber(sc.logical_coherence)
    /\ IsNumber(sc.creativity)
    /\ IsNumber(sc.persuasiveness)
    /\ IsNumber(sc.topic_relevance)

PersonaSubsInRange(sc) ==
    /\ PersonaSubsAreNumbers(sc)
    /\ sc.logical_coherence.val \in 0..30
    /\ sc.creativity.val \in 0..25
    /\ sc.persuasiveness.val \in 0..25
    /\ sc.topic_relevance.val \in 0..20

PersonaSum(sc) ==
    sc.logical_coherence.val + sc.creativity.val
    + sc.persuasiveness.val + sc.topic_relevance.val

\* a PersonaScore that passes strict validation
PersonaStrict(sc) ==
    /\ IsObject(sc)
    /\ PersonaSubsInRange(sc)
    /\ IsNumber(sc.total)
    /\ sc.total.val \in 0..100
    /\ PersonaSum(sc) - sc.total.val \in -1..1

\* a parsed judge record with a valid winner token and a scores object
JudgeWithWinner(r) ==
    /\ IsObject(r)
    /\ r.winner \in {Str("persona1"), Str("persona2")}
    /\ IsObject(r.scores)

Other(who) == IF who = "persona1" THEN "persona2" ELSE "persona1"

WinnerTotal(r) == r.scores[r.winner.str].total.val
LoserTotal(r) == r.scores[Other(r.winner.str)].total.val

WinnerMismatchMessage(r) ==
    IF r.winner.str = "persona1"
    THEN "Winner mismatch: persona1 declared but has lower score"
    ELSE "Winner mismatch: persona2 declared but has lower score"

JudgeFailedWith(cause) ==
    /\ outcome.status = "threw"
    /\ outcome.error = [message |-> "Failed to parse judge response", cause |-> cause]

(* C1: every result judgeBattle returns has a declared winner whose total  *)
(* is at least the other participant's; a parsed result with a valid       *)
(* winner token and two scores that pass strict validation, whose declared *)
(* winner has the lower total, makes judgeBattle fail with the winner      *)
(* mismatch error and return nothing.                                      *)
C1_WinnerHasNoLowerTotal ==
    Resolved =>
      /\ outcome.status = "returned" =>
            WinnerTotal(outcome.value) >= LoserTotal(outcome.value)
      /\ ( /\ Parsed.ok
           /\ JudgeWithWinner(Parsed.value)
           /\ PersonaStrict(Parsed.value.scores.persona1)
           /\ PersonaStrict(Parsed.value.scores.persona2)
           /\ WinnerTotal(Parsed.value) < LoserTotal(Parsed.value) )
          => JudgeFailedWith(WinnerMismatchMessage(Parsed.value))

C1_Witness ==
    /\ Resolved
    /\ Parsed.ok
    /\ JudgeWithWinner(Parsed.value)
    /\ Parsed.value.winner = Str("persona2")
    /\ PersonaStrict(Parsed.value.scores.persona1)
    /\ PersonaStrict(Parsed.value.scores.persona2)
    /\ WinnerTotal(Parsed.value) + 1 = LoserTotal(Parsed.value)
    /\ outcome.status = "threw"

\* the score of `who` is the one whose total check the call reaches
ReachesTotalCheck(r, who) ==
    /\ JudgeWithWinner(r)
    /\ who = "persona2" => PersonaStrict(r.scores.persona1)
    /\ IsObject(r.scores[who])
    /\ PersonaSubsInRange(r.scores[who])
    /\ IsNumber(r.scores[who].total)

TotalOff(sc) == PersonaSum(sc) - sc.total.val \notin -1..1

\* no returned score has a total further than 1 from its sum, and the totals
\* returned are the totals the generator declared
ReturnedTotalsAsDeclared ==
    (Resolved /\ outcome.status = "returned") =>
        \A who \in {"persona1", "persona2"} :
            /\ ~TotalOff(outcome.value.scores[who])
            /\ outcome.value.scores[who].total = Parsed.value.scores[who].total

(* C2 as stated: a PersonaScore with sub-scores in range and a declared    *)
(* total more than 1 from their sum fails validation with the total        *)
(* mismatch error; it is never part of a returned result and its total is  *)
(* never corrected.                                                        *)
C2_Original ==
    /\ ReturnedTotalsAsDeclared
    /\ Resolved =>
         \A who \in {"persona1", "persona2"} :
            ( /\ Parsed.ok
              /\ ReachesTotalCheck(Parsed.value, who)
              /\ TotalOff(Parsed.value.scores[who]) )
            => JudgeFailedWith("Total score mismatch")

(* C2 amended: such a score fails validation with the total mismatch error *)
(* when its declared total lies in 0..100 and with the total out-of-range  *)
(* error when it does not; it is never part of a returned result and its   *)
(* total is never corrected.                                               *)
C2_Amended ==
    /\ ReturnedTotalsAsDeclared
    /\ Resolved =>
         \A who \in {"persona1", "persona2"} :
            ( /\ Parsed.ok
              /\ ReachesTotalCheck(Parsed.value, who)
              /\ TotalOff(Parsed.value.scores[who]) )
            => IF Parsed.value.scores[who].total.val \in 0..100
               THEN JudgeFailedWith("Total score mismatch")
               ELSE JudgeFailedWith("total must be 0-100")

C2_Witness ==
    /\ Resolved
    /\ Parsed.ok
    /\ ReachesTotalCheck(Parsed.value, "persona2")
    /\ TotalOff(Parsed.value.scores.persona2)
    /\ Parsed.value.scores.persona2.total.val \in 0..100
    /\ JudgeFailedWith("Total score mismatch")

---------------------------------------------------------------------------
(* Prompt evaluation *)

PromptSubsInRange(sc) ==
    /\ IsNumber(sc.specificity) /\ sc.specificity.val \in 0..25
    /\ IsNumber(sc.creativity) /\ sc.creativity.val \in 0..25
    /\ IsNumber(sc.coherence) /\ sc.coherence.val \in 0..25
    /\ IsNumber(sc.complexity) /\ sc.complexity.val \in 0..25

PromptSum(sc) ==
    sc.specificity.val + sc.creativity.val + sc.coherence.val + sc.complexity.val

\* the answer parses to a score record with its sub-scores in range and a
\* numeric total
PromptSubsValid ==
    /\ Resolved
    /\ Parsed.ok
    /\ IsObject(Parsed.value)
    /\ PromptSubsInRange(Parsed.value)
    /\ IsNumber(Parsed.value.total)

DeclaredOff == PromptSum(Parsed.value) - Parsed.value.total.val \notin -1..1

Returned == outcome.status = "returned"

(* C3 as stated: a PromptScore with sub-scores in [0,25] and a declared    *)
(* total more than 1 from their sum is never rejected, and its total       *)
(* becomes the sum.                                                        *)
C3_Original ==
    (PromptSubsValid /\ DeclaredOff) =>
        /\ Returned
        /\ outcome.value.score.total = Num(PromptSum(Parsed.value))

(* C3 amended: a PromptScore with sub-scores in [0,25] and a declared      *)
(* total that lies in [0,100] and is more than 1 from their sum is never   *)
(* rejected, and its total becomes the sum.                                *)
C3_Amended ==
    (PromptSubsValid /\ DeclaredOff /\ Parsed.value.total.val \in 0..100) =>
        /\ Returned
        /\ outcome.value.score.total = Num(PromptSum(Parsed.value))

C3_Witness ==
    /\ PromptSubsValid
    /\ Parsed.value.total.val = PromptSum(Parsed.value) + 2
    /\ Returned
    /\ outcome.value.score.total = Num(PromptSum(Parsed.value))

(* C4 as stated: with the fields of the score within their declared        *)
(* ranges (read here with the declared total within its own range too),    *)
(* lenient validation leaves the total equal to the sum, whatever total    *)
(* was declared, a total off by exactly 1 included.                        *)
C4_Original ==
    (PromptSubsValid /\ Parsed.value.total.val \in 0..100) =>
        /\ Returned
        /\ outcome.value.score.total = Num(PromptSum(Parsed.value))

(* C4 amended: with the fields of the score within their declared ranges   *)
(* (the declared total within [0,100]), lenient validation leaves the      *)
(* total equal to the sum when the declared total was more than 1 from it, *)
(* and leaves the declared total in place when it was within 1 of the sum, *)
(* a total off by exactly 1 included.                                      *)
C4_Amended ==
    (PromptSubsValid /\ Parsed.value.total.val \in 0..100) =>
        /\ Returned
        /\ outcome.value.score.total =
              IF DeclaredOff THEN Num(PromptSum(Parsed.value))
              ELSE Parsed.value.total

C4_Witness ==
    /\ PromptSubsValid
    /\ Parsed.value.total.val = PromptSum(Parsed.value) + 1
    /\ Returned
    /\ outcome.value.score.total = Parsed.value.total

(* C5: every score evaluatePrompt returns has each sub-score in [0,25],    *)
(* its total in [0,100] and its total within 1 of the sum of the           *)
(* sub-scores.                                                             *)
C5_ReturnedScoreInvariant ==
    (Resolved /\ Returned) =>
        LET sc == outcome.value.score
        IN  /\ PromptSubsInRange(sc)
            /\ IsNumber(sc.total)
            /\ sc.total.val \in 0..100
            /\ PromptSum(sc) - sc.total.val \in -1..1

C5_Witness ==
    /\ Resolved
    /\ Returned
    /\ outcome.value.score.total.val = PromptSum(outcome.value.score) - 1
    /\ outcome.value.score.total.val = 99

---------------------------------------------------------------------------
(* Classifier, table and roll *)

\* the bands as the specification states them
StatedBand(total) ==
    IF total >= 86 THEN "exceptional"
    ELSE IF total \in 71..85 THEN "high"
    ELSE IF total \in 41..70 THEN "medium"
    ELSE "low"

\* the rows as the specification states them: common, rare, epic, legendary
StatedRow(level) ==
    CASE level = "exceptional" -> <<5, 30, 45, 20>>
      [] level = "high"        -> <<25, 40, 28, 7>>
      [] level = "medium"      -> <<50, 35, 12, 3>>
      [] level = "low"         -> <<80, 15, 4, 1>>

\* the weights of a TierProbability object in the order of Tiers
WeightsOf(probabilities) == [k \in 1..4 |-> Weight(probabilities, Tiers[k])]

(* C6: the quality classifier is total on 0..100 with the bands            *)
(* >= 86 exceptional, 71..85 high, 41..70 medium, 0..40 low.               *)
C6_QualityBands ==
    (qlLevel # "none" /\ qlTotal \in 0..100) =>
        /\ qlLevel \in QualityLevels
        /\ qlTotal \in 86..100 => qlLevel = "exceptional"
        /\ qlTotal \in 71..85 => qlLevel = "high"
        /\ qlTotal \in 41..70 => qlLevel = "medium"
        /\ qlTotal \in 0..40 => qlLevel = "low"

C6_Witness == qlTotal = 86 /\ qlLevel = "exceptional"

(* C7: the table has a row for each of the four bands, so the lookup of a  *)
(* band the classifier gives never misses; every weight is non-negative,   *)
(* every row sums to 100, and the rows hold the stated values.             *)
C7_TableRows ==
    /\ qlLevel # "none" => qlLevel \in DOMAIN table
    /\ \A q \in QualityLevels :
          /\ q \in DOMAIN table
          /\ Len(table[q]) = 4
          /\ \A k \in 1..4 : table[q][k][1] = Tiers[k] /\ table[q][k][2] >= 0
          /\ table[q][1][2] + table[q][2][2] + table[q][3][2] + table[q][4][2] = 100
          /\ WeightsOf(table[q]) = StatedRow(q)

C7_Witness ==
    /\ qlLevel = "exceptional"
    /\ qlTotal = 100
    /\ WeightsOf(table[qlLevel]) = <<5, 30, 45, 20>>

IsTableRow(probabilities) == \E q \in QualityLevels : probabilities = table[q]

\* the weight of the first k tiers in the order common, rare, epic, legendary
RECURSIVE TierCum(_, _)
TierCum(probabilities, k) ==
    IF k = 0 THEN 0
    ELSE TierCum(probabilities, k - 1) + Weight(probabilities, Tiers[k])

\* the weight of the first k entries of the object
RECURSIVE EntryCum(_, _)
EntryCum(probabilities, k) ==
    IF k = 0 THEN 0 ELSE EntryCum(probabilities, k - 1) + probabilities[k][2]

(* C8: on a row of the table and a draw in [0,100), rollTier returns the   *)
(* first tier, in the order common, rare, epic, legendary, whose           *)
(* cumulative weight is greater than the draw; each tier is returned for   *)
(* as many of the draws as its weight; draw 0 gives common and draw 99 on  *)
(* the exceptional row gives legendary.                                    *)
C8_RollFirstExceeding ==
    (rollTierOut # "none" /\ IsTableRow(rollProbs)) =>
        /\ \E k \in 1..4 :
              /\ rollTierOut = Tiers[k]
              /\ rollDraw < TierCum(rollProbs, k) * RollGrain
              /\ \A j \in 1..(k - 1) : rollDraw >= TierCum(rollProbs, j) * RollGrain
        /\ \A k \in 1..4 :
              Cardinality({ d \in RollDraws : rollTier(rollProbs, d).tier = Tiers[k] })
                = Weight(rollProbs, Tiers[k]) * RollGrain
        /\ rollDraw = 0 => rollTierOut = "common"
        /\ (WeightsOf(rollProbs) = StatedRow("exceptional") /\ rollDraw = 99 * RollGrain)
              => rollTierOut = "legendary"

C8_Witness ==
    /\ rollProbs = table["exceptional"]
    /\ rollDraw = 99 * RollGrain
    /\ rollTierOut = "legendary"

NoneExceeds(probabilities, draw) ==
    \A k \in 1..Len(probabilities) : draw >= EntryCum(probabilities, k) * RollGrain

(* C9: rollTier always returns one of the four tiers; it takes the         *)
(* fallback, returning common, exactly when no tier's cumulative weight    *)
(* exceeds the draw; on the rows of the table and draws in [0,100) the     *)
(* fallback is never taken.                                                *)
C9_RollFallback ==
    rollTierOut # "none" =>
        /\ rollTierOut \in {"common", "rare", "epic", "legendary"}
        /\ NoneExceeds(rollProbs, rollDraw) => (rollFallback /\ rollTierOut = "common")
        /\ rollFallback => NoneExceeds(rollProbs, rollDraw)
        /\ IsTableRow(rollProbs) => ~rollFallback

C9_Witness ==
    /\ rollProbs = TierProbability(5, 30, 45, 10)
    /\ rollDraw >= 90 * RollGrain
    /\ rollFallback
    /\ rollTierOut = "common"

(* C10: in every result evaluatePrompt returns, qualityLevel is the band   *)
(* of the returned score.total (the total after any correction) and        *)
(* tierProbabilities is the row of that band; sub-scores 20/18/22/15 with  *)
(* declared total 74 give high and 25/40/28/7.                             *)
C10_ResultConsistent ==
    (Resolved /\ Returned) =>
        /\ outcome.value.qualityLevel = StatedBand(outcome.value.score.total.val)
        /\ WeightsOf(outcome.value.tierProbabilities)
             = StatedRow(outcome.value.qualityLevel)
        /\ ( /\ outcome.value.score.specificity = Num(20)
             /\ outcome.value.score.creativity = Num(18)
             /\ outcome.value.score.coherence = Num(22)
             /\ outcome.value.score.complexity = Num(15)
             /\ Parsed.value.total = Num(74) )
            => /\ outcome.value.qualityLevel = "high"
               /\ WeightsOf(outcome.value.tierProbabilities) = <<25, 40, 28, 7>>

\* a corrected total in another band than the declared one
C10_Witness ==
    /\ Resolved
    /\ Returned
    /\ Parsed.value.total = Num(42)
    /\ outcome.value.score.total = Num(40)
    /\ outcome.value.qualityLevel = "low"

\* the example of the specification is among the answers drawn
C10_Example ==
    /\ Resolved
    /\ Returned
    /\ outcome.value.score.specificity = Num(20)
    /\ outcome.value.score.complexity = Num(15)
    /\ Parsed.value.total = Num(74)
    /\ outcome.value.score.total = Num(74)
    /\ outcome.value.qualityLevel = "high"

---------------------------------------------------------------------------
(* Both pipelines: failure of parsing or validation *)

IsEval == service = "evaluatePrompt"
IsJudge == service = "judgeBattle"

\* the tests `!v` and `v.length < 20` of the judge validator, as JavaScript
\* evaluates them on a JSON value
Truthy(v) ==
    CASE v.type = "string" -> v.length > 0
      [] v.type = "number" -> v.val # 0
      [] v.type = "object" -> TRUE
      [] OTHER -> FALSE

FieldOf(obj, f) == IF IsObject(obj) THEN obj[f] ELSE Undefined

NarrativePasses(r) ==
    /\ Truthy(r.reasoning)
    /\ ~(r.reasoning.type = "string" /\ r.reasoning.length < 20)
    /\ Truthy(FieldOf(r.highlights, "persona1_best"))
    /\ Truthy(FieldOf(r.highlights, "persona2_best"))
    /\ Truthy(FieldOf(r.improvement_suggestions, "persona1"))
    /\ Truthy(FieldOf(r.improvement_suggestions, "persona2"))

\* the answer parses and passes every step of lenient validation
EvalPasses ==
    /\ Parsed.ok
    /\ IsObject(Parsed.value)
    /\ PromptSubsInRange(Parsed.value)
    /\ IsNumber(Parsed.value.total)
    /\ Parsed.value.total.val \in 0..100

\* the answer parses and passes every step of the judge validation
JudgePasses ==
    /\ Parsed.ok
    /\ JudgeWithWinner(Parsed.value)
    /\ PersonaStrict(Parsed.value.scores.persona1)
    /\ PersonaStrict(Parsed.value.scores.persona2)
    /\ WinnerTotal(Parsed.value) >= LoserTotal(Parsed.value)
    /\ NarrativePasses(Parsed.value)

EvalCauses ==
    {"TypeError", "Invalid score format", "Scores must be between 0 and 25",
     "Total score must be between 0 and 100"}

JudgeCauses ==
    {"TypeError", "Invalid winner value", "Invalid score types",
     "logical_coherence must be 0-30", "creativity must be 0-25",
     "persuasiveness must be 0-25", "topic_relevance must be 0-20",
     "total must be 0-100", "Total score mismatch",
     "Winner mismatch: persona1 declared but has lower score",
     "Winner mismatch: persona2 declared but has lower score",
     "Reasoning must be at least 20 characters", "Missing highlights",
     "Missing improvement suggestions"}

\* the call failed with the given parse error, which carries a cause of the
\* given kind, and handed nothing else to its caller
FailedWhole(message, causes) ==
    /\ DOMAIN outcome = {"status", "error"}
    /\ outcome.status = "threw"
    /\ DOMAIN outcome.error = {"message", "cause"}
    /\ outcome.error.message = message
    /\ IF Parsed.ok THEN outcome.error.cause \in causes
                    ELSE outcome.error.cause = "SyntaxError"

(* C11: validation is all-or-nothing in both pipelines.  When parsing or   *)
(* any validation step fails, evaluatePrompt fails with the evaluation     *)
(* parse error and judgeBattle with the judge parse error, each carrying   *)
(* the underlying cause, and no result, partial or whole, is returned.     *)
C11_AllOrNothing ==
    Resolved =>
      /\ (IsEval /\ ~EvalPasses) =>
            FailedWhole("Failed to parse evaluation response", EvalCauses)
      /\ (IsJudge /\ ~JudgePasses) =>
            FailedWhole("Failed to parse judge response", JudgeCauses)

\* a judge answer whose second score fails validation after the first passed
C11_Witness ==
    /\ Resolved
    /\ IsJudge
    /\ Parsed.ok
    /\ JudgeWithWinner(Parsed.value)
    /\ PersonaStrict(Parsed.value.scores.persona1)
    /\ ~PersonaStrict(Parsed.value.scores.persona2)
    /\ FailedWhole("Failed to parse judge response", {"Total score mismatch"})

(* C12: each invocation of evaluatePrompt or judgeBattle calls the         *)
(* generator exactly once, before any parsing or validation, and never     *)
(* again whatever the outcome: at every moment the generator has been      *)
(* called as many times as the pipelines have been invoked, and while a    *)
(* call waits for the generator it has parsed and settled nothing.         *)
C12_OneGeneratorCall ==
    /\ genCalls = calls
    /\ pc = "awaiting" => (response = NoResponse /\ outcome = NoOutcome)
    /\ outcome # NoOutcome => pc = "done"

\* a second invocation has failed on its answer, after a first one
C12_Witness ==
    /\ Resolved
    /\ outcome.status = "threw"
    /\ calls = 2
    /\ genCalls = 2

(* C13: the result of an evaluatePrompt call depends only on the call's    *)
(* own input and the generator's answer to it; nothing a caller does with  *)
(* a result returned earlier, writing to the tierProbabilities object it   *)
(* received included, changes the score, qualityLevel or tierProbabilities *)
(* of another call: every returned result is the one the service gives to  *)
(* that answer when no caller has touched anything.                        *)
C13_ResultOwnInputOnly ==
    (Resolved /\ IsEval /\ Returned) =>
        outcome.value = evaluatePrompt(response.value, TIER_PROBABILITIES).value

---------------------------------------------------------------------------
(* Battle judge: the narrative fields *)

\* a string of at least n characters
TextOfAtLeast(v, n) == v.type = "string" /\ v.length >= n

NarrativeComplete(r) ==
    /\ TextOfAtLeast(r.reasoning, 20)
    /\ TextOfAtLeast(FieldOf(r.highlights, "persona1_best"), 1)
    /\ TextOfAtLeast(FieldOf(r.highlights, "persona2_best"), 1)
    /\ TextOfAtLeast(FieldOf(r.improvement_suggestions, "persona1"), 1)
    /\ TextOfAtLeast(FieldOf(r.improvement_suggestions, "persona2"), 1)

(* C14: every result judgeBattle returns has reasoning present with at     *)
(* least 20 characters, and highlights.persona1_best,                      *)
(* highlights.persona2_best, improvement_suggestions.persona1 and          *)
(* improvement_suggestions.persona2 present and non-empty; a parsed        *)
(* result lacking any of these is rejected, none is returned.              *)
C14_NarrativeRequired ==
    (Resolved /\ IsJudge) =>
      /\ Returned => NarrativeComplete(outcome.value)
      /\ (Parsed.ok /\ IsObject(Parsed.value) /\ ~NarrativeComplete(Parsed.value))
            => outcome.status = "threw"

---------------------------------------------------------------------------
(* Both validators: sub-scores outside their intervals, fields of the      *)
(* wrong type                                                              *)

PromptFields == <<"specificity", "creativity", "coherence", "complexity">>
PersonaFields ==
    <<"logical_coherence", "creativity", "persuasiveness", "topic_relevance">>

PersonaMax(f) ==
    CASE f = "logical_coherence" -> 30
      [] f = "creativity" -> 25
      [] f = "persuasiveness" -> 25
      [] f = "topic_relevance" -> 20

\* an out-of-range error that names the field f
NamedRangeError(f) ==
    CASE f = "logical_coherence" -> "logical_coherence must be 0-30"
      [] f = "creativity" -> "creativity must be 0-25"
      [] f = "persuasiveness" -> "persuasiveness must be 0-25"
      [] f = "topic_relevance" -> "topic_relevance must be 0-20"
      [] f = "specificity" -> "specificity must be 0-25"
      [] f = "coherence" -> "coherence must be 0-25"
      [] f = "complexity" -> "complexity must be 0-25"

\* the positions of the sub-scores of sc that are numbers outside 0..max
PromptOffending(sc) ==
    { i \in 1..4 : /\ IsNumber(sc[PromptFields[i]])
                   /\ sc[PromptFields[i]].val \notin 0..25 }
PersonaOffending(sc) ==
    { i \in 1..4 : /\ IsNumber(sc[PersonaFields[i]])
                   /\ sc[PersonaFields[i]].val \notin 0..PersonaMax(PersonaFields[i]) }

AllNumbers(sc, fields) ==
    /\ \A i \in 1..4 : IsNumber(sc[fields[i]])
    /\ IsNumber(sc.total)

First(S) == CHOOSE i \in S : \A j \in S : i <= j

\* validation of the judge record gets as far as the score of `who`
ReachesScore(r, who) ==
    /\ JudgeWithWinner(r)
    /\ who = "persona2" => PersonaStrict(r.scores.persona1)
    /\ IsObject(r.scores[who])

EvalFailedWith(cause) ==
    /\ outcome.status = "threw"
    /\ outcome.error = [message |-> "Failed to parse evaluation response",
                        cause |-> cause]

(* C15 as stated: any sub-score outside its declared closed interval makes *)
(* validation fail with an out-of-range error that names an offending      *)
(* field, for PromptScore (each sub-score 0..25) and for PersonaScore       *)
(* (0..30, 0..25, 0..25, 0..20).                                           *)
C15_Original ==
    (Resolved /\ Parsed.ok) =>
      /\ (IsEval /\ IsObject(Parsed.value) /\ PromptOffending(Parsed.value) # {}) =>
            \E i \in PromptOffending(Parsed.value) :
                EvalFailedWith(NamedRangeError(PromptFields[i]))
      /\ IsJudge =>
            \A who \in {"persona1", "persona2"} :
              ( /\ ReachesScore(Parsed.value, who)
                /\ PersonaOffending(Parsed.value.scores[who]) # {} )
              => \E i \in PersonaOffending(Parsed.value.scores[who]) :
                    JudgeFailedWith(NamedRangeError(PersonaFields[i]))

(* C15 amended: in a score whose four sub-scores and total are all         *)
(* numbers, any sub-score outside its declared closed interval makes       *)
(* validation fail with an out-of-range error.  For PersonaScore the error *)
(* names the first offending field in the order logical_coherence,         *)
(* creativity, persuasiveness, topic_relevance; for PromptScore it is the  *)
(* one message 'Scores must be between 0 and 25', which names no field.    *)
C15_Amended ==
    (Resolved /\ Parsed.ok) =>
      /\ ( /\ IsEval
           /\ IsObject(Parsed.value)
           /\ AllNumbers(Parsed.value, PromptFields)
           /\ PromptOffending(Parsed.value) # {} )
          => EvalFailedWith("Scores must be between 0 and 25")
      /\ IsJudge =>
            \A who \in {"persona1", "persona2"} :
              ( /\ ReachesScore(Parsed.value, who)
                /\ AllNumbers(Parsed.value.scores[who], PersonaFields)
                /\ PersonaOffending(Parsed.value.scores[who]) # {} )
              => JudgeFailedWith(NamedRangeError(
                    PersonaFields[First(PersonaOffending(Parsed.value.scores[who]))]))

\* a PromptScore with one sub-score below 0 and the rest in order
C15_Witness ==
    /\ Resolved
    /\ IsEval
    /\ Parsed.ok
    /\ IsObject(Parsed.value)
    /\ AllNumbers(Parsed.value, PromptFields)
    /\ PromptOffending(Parsed.value) = {3}
    /\ Parsed.value.coherence.val < 0
    /\ EvalFailedWith("Scores must be between 0 and 25")

(* C16: a score object in which a sub-score field or the total is not a    *)
(* number fails validation with the invalid-format error ('Invalid score   *)
(* format' for a PromptScore, 'Invalid score types' for a PersonaScore),   *)
(* whatever the other fields hold: the type check comes before the range   *)
(* checks and the comparison of the total with the sum.                    *)
C16_TypeCheckFirst ==
    (Resolved /\ Parsed.ok) =>
      /\ ( /\ IsEval
           /\ IsObject(Parsed.value)
           /\ ~AllNumbers(Parsed.value, PromptFields) )
          => EvalFailedWith("Invalid score format")
      /\ IsJudge =>
            \A who \in {"persona1", "persona2"} :
              ( /\ ReachesScore(Parsed.value, who)
                /\ ~AllNumbers(Parsed.value.scores[who], PersonaFields) )
              => JudgeFailedWith("Invalid score types")

\* a PersonaScore with one field missing beside a field outside its interval
C16_Witness ==
    /\ Resolved
    /\ IsJudge
    /\ Parsed.ok
    /\ ReachesScore(Parsed.value, "persona2")
    /\ Parsed.value.scores.persona2.topic_relevance = Undefined
    /\ PersonaOffending(Parsed.value.scores.persona2) = {1}
    /\ JudgeFailedWith("Invalid score types")

---------------------------------------------------------------------------
(* Battle judge: the winner token *)

WinnerTokens == {Str("persona1"), Str("persona2")}

(* C17: every result judgeBattle returns has winner 'persona1' or          *)
(* 'persona2'; a parsed result with any other winner, or none, is rejected *)
(* with the invalid-winner error, whatever its scores are: the winner is   *)
(* checked before the scores are looked at.                                *)
C17_WinnerToken ==
    (Resolved /\ IsJudge) =>
      /\ Returned => outcome.value.winner \in WinnerTokens
      /\ (Parsed.ok /\ IsObject(Parsed.value) /\ Parsed.value.winner \notin WinnerTokens)
            => JudgeFailedWith("Invalid winner value")

\* no winner, and a first score that validation would reject
C17_Witness ==
    /\ Resolved
    /\ IsJudge
    /\ Parsed.ok
    /\ IsObject(Parsed.value)
    /\ Parsed.value.winner = Undefined
    /\ IsObject(Parsed.value.scores)
    /\ ~PersonaStrict(Parsed.value.scores.persona1)
    /\ JudgeFailedWith("Invalid winner value")

---------------------------------------------------------------------------
(* Both pipelines: the finish reason of the generator's answer *)

(* C18: when the generator's answer carries finishReason content_filter,   *)
(* the core treats its text as unusable: neither evaluatePrompt nor        *)
(* judgeBattle returns a result built from it.                             *)
C18_ContentFilterUnusable ==
    (Resolved /\ response.value.finishReason = "content_filter") => ~Returned

---------------------------------------------------------------------------
(* Battle judge: the tie-break of the judge prompt *)

WinnerPersuasiveness(r) == r.scores[r.winner.str].persuasiveness.val
LoserPersuasiveness(r) == r.scores[Other(r.winner.str)].persuasiveness.val

\* a parsed judge record that meets every condition the validator sets
MeetsValidator ==
    /\ Resolved
    /\ IsJudge
    /\ Parsed.ok
    /\ JudgeWithWinner(Parsed.value)
    /\ PersonaStrict(Parsed.value.scores.persona1)
    /\ PersonaStrict(Parsed.value.scores.persona2)
    /\ NarrativeComplete(Parsed.value)
    /\ WinnerTotal(Parsed.value) >= LoserTotal(Parsed.value)

(* C19: the judge validator checks that the declared winner has at least   *)
(* the other's total and nothing about the tie-break: every parsed result  *)
(* with a valid winner token, two scores that pass strict validation, the  *)
(* required narrative fields and a winner total not below the other's is   *)
(* returned as it was parsed, whatever the persuasiveness sub-scores are,  *)
(* totals within 3 with the winner lower on persuasiveness and exact ties  *)
(* with either winner included.                                            *)
C19_TieBreakNotEnforced ==
    MeetsValidator => (Returned /\ outcome.value = Parsed.value)

\* totals 52 and 50, and the winner has the lower persuasiveness
C19_Witness ==
    /\ MeetsValidator
    /\ WinnerTotal(Parsed.value) - LoserTotal(Parsed.value) \in 1..3
    /\ WinnerPersuasiveness(Parsed.value) < LoserPersuasiveness(Parsed.value)
    /\ Returned

\* an exact tie in which the declared winner has the lower persuasiveness
C19_Tie ==
    /\ MeetsValidator
    /\ WinnerTotal(Parsed.value) = LoserTotal(Parsed.value)
    /\ WinnerPersuasiveness(Parsed.value) < LoserPersuasiveness(Parsed.value)
    /\ Returned

---------------------------------------------------------------------------
(* Both pipelines: two invocations on the same generator text *)

SameOutcome(a, b) == a.outcome = b.outcome

(* C20: tier rolling is the only non-deterministic operation: two          *)
(* invocations of evaluatePrompt, or two of judgeBattle, that receive the  *)
(* same generator text end in the same outcome, the same returned result   *)
(* or the same failure; and evaluatePrompt draws no random value and rolls *)
(* no tier.                                                                *)
C20_SameTextSameOutcome ==
    /\ \A i \in DOMAIN log : \A j \in DOMAIN log :
          (log[i].service = log[j].service /\ log[i].text = log[j].text)
          => SameOutcome(log[i], log[j])
    /\ rollTierOut = "none"
    /\ rollDraw = 0
    /\ rollProbs = <<>>

---------------------------------------------------------------------------
(* Prompt evaluation: a declared total outside 0..100 *)

(* C21: in prompt evaluation a declared total below 0 or above 100 is a    *)
(* validation failure even when the four sub-scores are in range: the      *)
(* range check on the total runs before the lenient correction, so such a  *)
(* total is rejected with the total-range error and never recomputed.      *)
C21_TotalRangeBeforeCorrection ==
    (PromptSubsValid /\ IsEval /\ Parsed.value.total.val \notin 0..100) =>
        EvalFailedWith("Total score must be between 0 and 100")

\* sub-scores in range, a total above 100 that is far from their sum
C21_Witness ==
    /\ PromptSubsValid
    /\ IsEval
    /\ Parsed.value.total.val > 100
    /\ DeclaredOff
    /\ EvalFailedWith("Total score must be between 0 and 100")

---------------------------------------------------------------------------
(* BedrockProvider *)

ImageCallMade == bedrock.pc \in {"sending", "done"} /\ bedrock.op = "generateImage"
TextCallDone == bedrock.pc = "done" /\ bedrock.op = "generateText"

\* the dimension asked for, 1024 standing for one that was left out (or
\* given as 0, which `||` takes for left out)
Asked(v) == IF v = Undefined \/ v = Num(0) THEN 1024 ELSE v.val

SquarePairs == { <<512, 512>>, <<1024, 1024>> }

(* C22: generateImage accepts only the dimensions 512x512 and 1024x1024,   *)
(* 1024 standing for an omitted width or height: every other pair, the     *)
(* mixed pairs 512x1024 and 1024x512 included, fails with an               *)
(* AIProviderError, and the image model is not invoked.                    *)
C22_OnlySquareDimensions ==
    ( /\ ImageCallMade
      /\ <<Asked(bedrock.request.width), Asked(bedrock.request.height)>>
            \notin SquarePairs )
    => /\ bedrock.pc = "done"
       /\ ~bedrock.invoked
       /\ ~bedrock.result.ok
       /\ bedrock.result.error.name = "AIProviderError"

---------------------------------------------------------------------------
(* Both pipelines: the generator call itself fails *)

GeneratorFailed == pc = "done" /\ response.settled = "rejected"

(* C23: an error raised by the generator call (generateText rejecting, for *)
(* example with RateLimitError or ContentFilterError) reaches the caller   *)
(* of evaluatePrompt or judgeBattle unchanged: it is not wrapped as a      *)
(* 'failed to parse' error, and no parsing or validation ran on it.        *)
C23_GeneratorErrorUnwrapped ==
    GeneratorFailed =>
      /\ outcome.status = "threw"
      /\ outcome.error = [name |-> response.error]
      /\ "cause" \notin DOMAIN outcome.error
      /\ "value" \notin DOMAIN outcome

\* the generator refused an evaluatePrompt call for its rate limit
C23_Witness ==
    /\ GeneratorFailed
    /\ IsEval
    /\ response.error = "RateLimitError"
    /\ outcome.error.name = "RateLimitError"

---------------------------------------------------------------------------
(* BedrockProvider.generateText *)

\* the model answered with a body that parses to an object
Answered ==
    /\ TextCallDone
    /\ bedrock.sent.settled = "resolved"
    /\ bedrock.sent.body.kind = "json"
    /\ bedrock.sent.body.json # JsNull

StopReason == bedrock.sent.body.json.stop_reason

Filtered == Answered /\ StopReason = Str("content_filtered")

(* C24: generateText never returns a response whose finishReason is        *)
(* content_filter: a stop reason of content_filtered always ends in a      *)
(* ContentFilterError, and every returned response has finishReason        *)
(* 'length' (for max_tokens) or 'stop' (for every other stop reason,       *)
(* unknown ones included).                                                 *)
C24_NoContentFilterReturned ==
    TextCallDone =>
      /\ bedrock.result.ok =>
            /\ Answered
            /\ bedrock.result.value.finishReason =
                  IF StopReason = Str("max_tokens") THEN "length" ELSE "stop"
      /\ Filtered =>
            /\ ~bedrock.result.ok
            /\ bedrock.result.error.class = "ContentFilterError"

\* a filtered answer that did carry a text block
C24_Witness ==
    /\ Filtered
    /\ findText(bedrock.sent.body.json.content) # Undefined
    /\ ~bedrock.result.ok
    /\ bedrock.result.error.name = "ContentFilterError"

\* an answer with a stop reason the mapping does not know
C24_Unknown ==
    /\ Answered
    /\ StopReason = Str("tool_use")
    /\ bedrock.result.ok
    /\ bedrock.result.value.finishReason = "stop"

\* the client raised ThrottlingException
Throttled ==
    /\ TextCallDone
    /\ bedrock.sent.settled = "rejected"
    /\ bedrock.sent.error.name = "ThrottlingException"

\* what went wrong first, for a failure that is neither of the two above
FirstError ==
    IF bedrock.sent.settled = "rejected" THEN bedrock.sent.error
    ELSE IF bedrock.sent.body.kind = "unparsable" THEN ForeignError("SyntaxError")
    ELSE IF bedrock.sent.body.json = JsNull THEN ForeignError("TypeError")
    ELSE AIProviderError("No text content in response", NoOriginal)

(* C25: every failure of generateText reaches the caller as exactly one of *)
(* three kinds: RateLimitError with retryAfter 60 when the client raised   *)
(* ThrottlingException; the ContentFilterError itself, not wrapped, when   *)
(* the content was filtered; and an AIProviderError that carries the       *)
(* original error for everything else, a response without text content     *)
(* included.  A call fails in these cases only.                            *)
C25_ThreeErrorKinds ==
    TextCallDone =>
      IF Throttled
      THEN bedrock.result = Throw(RateLimitError(60))
      ELSE IF Filtered
      THEN bedrock.result =
              Throw(ContentFilterError("Content was filtered by safety policies"))
      ELSE IF Answered /\ findText(bedrock.sent.body.json.content) # Undefined
      THEN bedrock.result.ok
      ELSE /\ ~bedrock.result.ok
           /\ bedrock.result.error.class = "AIProviderError"
           /\ bedrock.result.error.originalError = FirstError

\* an answer without a text block
C25_Witness ==
    /\ Answered
    /\ ~Filtered
    /\ findText(bedrock.sent.body.json.content) = Undefined
    /\ ~bedrock.result.ok
    /\ bedrock.result.error.name = "AIProviderError"
    /\ bedrock.result.error.originalError.message = "No text content in response"

---------------------------------------------------------------------------
(* Battle judge: the winner's recomputed sum *)

WinnerSum(r) == PersonaSum(r.scores[r.winner.str])
LoserSum(r) == PersonaSum(r.scores[Other(r.winner.str)])

(* C26: in every result judgeBattle returns, the sum of the declared       *)
(* winner's four sub-scores is at least the sum of the other's minus 2:    *)
(* the winner check compares the declared totals, each within 1 of its     *)
(* sum, so a winner whose sum is lower by up to 2 is accepted.             *)
C26_WinnerSumWithinTwo ==
    (Resolved /\ IsJudge /\ Returned) =>
        WinnerSum(outcome.value) >= LoserSum(outcome.value) - 2

\* a returned result whose winner has the lower sum, by exactly 2
C26_Witness ==
    /\ Resolved
    /\ IsJudge
    /\ Returned
    /\ WinnerSum(outcome.value) = LoserSum(outcome.value) - 2

---------------------------------------------------------------------------
(* Both pipelines: what validation changes *)

ScoreFieldsKept == {"type", "specificity", "creativity", "coherence",
                    "complexity", "reasoning"}

(* C27: validation changes nothing except, in lenient mode, the total.     *)
(* The score evaluatePrompt returns has the four sub-scores and the        *)
(* reasoning of the parsed record, and its total too whenever that is      *)
(* within 1 of the sum of the sub-scores; judgeBattle returns exactly the  *)
(* record parsed from the generator text.                                  *)
C27_ValidationFrame ==
    (Resolved /\ Returned) =>
      /\ IsEval =>
            /\ DOMAIN outcome.value.score = DOMAIN Parsed.value
            /\ \A f \in ScoreFieldsKept :
                  outcome.value.score[f] = Parsed.value[f]
            /\ ~DeclaredOff => outcome.value.score.total = Parsed.value.total
      /\ IsJudge => outcome.value = Parsed.value

\* a total one above the sum is returned as it was declared
C27_Witness ==
    /\ Resolved
    /\ Returned
    /\ IsEval
    /\ Parsed.value.total.val = PromptSum(Parsed.value) + 1
    /\ outcome.value.score = Parsed.value

---------------------------------------------------------------------------
(* Gacha: a higher score never worsens the odds *)

BandRank(level) ==
    CASE level = "low" -> 1
      [] level = "medium" -> 2
      [] level = "high" -> 3
      [] level = "exceptional" -> 4

\* the summed weight of the tiers from the k-th up, in the order
\* common < rare < epic < legendary
RECURSIVE TailWeight(_, _)
TailWeight(probabilities, k) ==
    IF k > 4 THEN 0
    ELSE Weight(probabilities, Tiers[k]) + TailWeight(probabilities, k + 1)

(* C28: a higher score never worsens the odds.  For totals t1 <= t2 in     *)
(* 0..100 the band of t2 is not below the band of t1 in the order           *)
(* low < medium < high < exceptional, and for every tier the summed weight *)
(* of that tier and the tiers above it in the row of t2 is at least that   *)
(* in the row of t1; so the legendary weight never falls and the common    *)
(* weight never rises as the total grows.                                  *)
C28_HigherScoreNoWorseOdds ==
    (qlLevel # "none" /\ qlTotal \in 0..100) =>
        \A t1 \in 0..qlTotal :
            LET band1 == getQualityLevel(t1)
            IN  /\ BandRank(band1) <= BandRank(qlLevel)
                /\ \A k \in 1..4 :
                      TailWeight(table[band1], k) <= TailWeight(table[qlLevel], k)
                /\ Weight(table[band1], "legendary") <= Weight(table[qlLevel], "legendary")
                /\ Weight(table[band1], "common") >= Weight(table[qlLevel], "common")

\* the first total of the band high, against every total below it
C28_Witness ==
    /\ qlTotal = 71
    /\ qlLevel = "high"
    /\ getQualityLevel(70) = "medium"
    /\ TailWeight(table["medium"], 3) < TailWeight(table[qlLevel], 3)

===========================================================================
